---- MODULE Spec2Model ----
(***************************************************************************)
(* ProdConsPQueue (src/src/index.ts): a slot-bounded buffer between        *)
(* producers and a p-queue that runs the consumer function with bounded    *)
(* concurrency.                                                            *)
(*                                                                         *)
(* Every action is one synchronous run of JavaScript: a public method up   *)
(* to its first await, the continuation after an await, a promise          *)
(* settlement handler, or a setImmediate callback.  Between two such runs  *)
(* any other run may be scheduled, which is what Next interleaves.         *)
(***************************************************************************)
EXTENDS Integers, Sequences, FiniteSets, TLC

\* ---------------------------------------------------------------- bounds
NumProducers == 3      \* produce() calls in a run of produce/consume/pause/start
NumLifecycleProducers == 2  \* produce() calls in a run using every operation
MaxSlotAmount == 2     \* largest slotAmount configured or set
MaxConcurrency == 2    \* largest concurrency configured
MaxPendingClear == 1   \* clear() calls suspended at `await this.queue.clear()`
NumDestroyProducers == 2    \* produce()/hasFreeSlot() calls in a run that destroys
NumEventWaiters == 1   \* waitForEvent() calls in a run
NumListeners == 1      \* callbacks registered with on('destroy', callback)
NumTerminalProducers == 1   \* produce()/hasFreeSlot() calls in a run that
                            \*   resizes, clears and destroys
NumWaitCalls == 2      \* waitForEvent() calls in a run that follows them

Producers == 1..NumProducers

\* The value `undefined`; producer p's task otherwise resolves to the item p.
Undefined == 0

EventWaiterIds ==
    1..(IF NumWaitCalls > NumEventWaiters THEN NumWaitCalls ELSE NumEventWaiters)

Listeners == 1..NumListeners

\* the events a waitForEvent() call of the model waits for
WaitableEvents == {"free-slot-amount-change", "blocked-state-change", "destroy"}

\* the payloads an event can carry ('destroy' carries the instance)
Payloads(event) ==
    IF event = "free-slot-amount-change" THEN 0..MaxSlotAmount
    ELSE IF event = "blocked-state-change" THEN BOOLEAN
    ELSE {"this"}

\* the second argument of waitForEvent(): absent, or `v => v === eq`
Conditions(event) ==
    {[given |-> FALSE]} \cup {[given |-> TRUE, eq |-> v] : v \in Payloads(event)}

VARIABLES
    buffer,            \* this.buffer: produced, not yet claimed items
    slotAmount,        \* this.slotAmount
    consuming,         \* this.consuming
    consumeFn,         \* this.consumeFn !== null
    destroyed,         \* this.destroyed
    waitingForSlot,    \* this.waitingForSlot: suspended hasFreeSlot() callers
    previousBlocked,   \* this.previousBlocked
    runningJobs,       \* this.runningJobs
    queue,             \* this.queue, the p-queue: concurrency, isPaused,
                       \*   pending (jobs it has started and not yet finished),
                       \*   jobs (items whose job it has not started yet)
    executing,         \* items whose consumeFn(data) call has not settled
    exiting,           \* jobs whose finally block ran, not yet finished in p-queue
    immediates,        \* setImmediate(() => this.scheduleConsumption()) callbacks due
    pc,                \* position of each produce() call: "unused" (never
                       \*   made), "idle" (not made yet), "waiting" (suspended
                       \*   in hasFreeSlot()), "producing" (past hasFreeSlot(),
                       \*   fn() called or about to be, its result awaited),
                       \*   "done" (item pushed), "rejected" (threw: destroyed),
                       \*   "failed" (fn() threw); of a hasFreeSlot() call made
                       \*   on its own: "suspended", then "resolved"
    listeners,         \* this.listeners.get('destroy'): registered callbacks
    eventWaiters,      \* this.eventWaiters: per event, the pending waiters
    waitCall,          \* position of each waitForEvent() call, and its result
    emptyCall,         \* position of the waitForEmpty() call: "idle" (not made
                       \*   yet), "polling" (awaiting its 1 ms timer), "returned"
    threw,             \* the last public call threw the destroyed-state error
    emitLog,           \* history: the emissions that notifyEventWaiters()
                       \*   examined waiters for during the last step
    clearPending,      \* clear() calls suspended before their notifyStateChange()
    destroyPc,         \* position of the first destroy() call
    appended,          \* history: producers in the order of their buffer.push
    started,           \* history: items in the order consumeFn was invoked
    settled,           \* history: items in the order consumeFn settled
    freeSlotEvents,    \* history: the last free-slot-amount-change emission
    blockedEvents,     \* history: the last two blocked-state-change emissions
    delivered,         \* history: 'destroy' events each callback has received
    consumerErrors     \* history: items whose consumeFn threw (console.error)

vars == <<buffer, slotAmount, consuming, consumeFn, destroyed, waitingForSlot,
          previousBlocked, runningJobs, queue, executing, exiting, immediates,
          pc, clearPending, destroyPc, appended, started, settled,
          freeSlotEvents, blockedEvents, listeners, eventWaiters, waitCall,
          threw, delivered, consumerErrors, emitLog, emptyCall>>

\* The whole state as one record, so that the helpers a handler calls in
\* sequence compose as functions from state to state.
State ==
    [buffer |-> buffer, slotAmount |-> slotAmount, consuming |-> consuming,
     consumeFn |-> consumeFn, destroyed |-> destroyed,
     waitingForSlot |-> waitingForSlot, previousBlocked |-> previousBlocked,
     runningJobs |-> runningJobs, queue |-> queue, executing |-> executing,
     exiting |-> exiting, immediates |-> immediates, pc |-> pc,
     clearPending |-> clearPending, destroyPc |-> destroyPc,
     appended |-> appended, started |-> started, settled |-> settled,
     freeSlotEvents |-> freeSlotEvents, blockedEvents |-> blockedEvents,
     listeners |-> listeners, eventWaiters |-> eventWaiters,
     waitCall |-> waitCall, threw |-> threw, delivered |-> delivered,
     consumerErrors |-> consumerErrors, emitLog |-> <<>>,
     emptyCall |-> emptyCall]

Becomes(s) ==
    /\ buffer' = s.buffer
    /\ slotAmount' = s.slotAmount
    /\ consuming' = s.consuming
    /\ consumeFn' = s.consumeFn
    /\ destroyed' = s.destroyed
    /\ waitingForSlot' = s.waitingForSlot
    /\ previousBlocked' = s.previousBlocked
    /\ runningJobs' = s.runningJobs
    /\ queue' = s.queue
    /\ executing' = s.executing
    /\ exiting' = s.exiting
    /\ immediates' = s.immediates
    /\ pc' = s.pc
    /\ clearPending' = s.clearPending
    /\ destroyPc' = s.destroyPc
    /\ appended' = s.appended
    /\ started' = s.started
    /\ settled' = s.settled
    /\ freeSlotEvents' = s.freeSlotEvents
    /\ blockedEvents' = s.blockedEvents
    /\ listeners' = s.listeners
    /\ eventWaiters' = s.eventWaiters
    /\ waitCall' = s.waitCall
    /\ threw' = s.threw
    /\ delivered' = s.delivered
    /\ consumerErrors' = s.consumerErrors
    /\ emitLog' = s.emitLog
    /\ emptyCall' = s.emptyCall

\* ------------------------------------------------------------- accessors
Max(a, b) == IF a >= b THEN a ELSE b

getFreeSlotAmount(s) ==
    LET usedSlots == s.runningJobs + Len(s.buffer)
    IN  Max(0, s.slotAmount - usedSlots)

isBlocked(s) == (s.runningJobs + Len(s.buffer)) >= s.slotAmount

\* the last n elements of a sequence
LastN(seq, n) ==
    IF Len(seq) <= n THEN seq ELSE SubSeq(seq, Len(seq) - n + 1, Len(seq))

\* ---------------------------------------------------------------- events
\* a waiter whose condition is not looked at
conditionIgnored(w, value) == TRUE

\* waiter.condition is absent or holds of the value
conditionHolds(w, value) == ~w.condition.given \/ w.condition.eq = value

\* the waiters of a list that notifyEventWaiters() leaves in it
RECURSIVE remainingWaiters(_, _)
remainingWaiters(waiters, value) ==
    IF waiters = <<>> THEN <<>>
    ELSE IF conditionHolds(Head(waiters), value)
         THEN remainingWaiters(Tail(waiters), value)
         ELSE <<Head(waiters)>> \o remainingWaiters(Tail(waiters), value)

\* notifyEventWaiters(eventName, value): resolve with the value every waiter
\* whose condition is absent or holds, and remove it from the list.
notifyEventWaiters(s, eventName, value) ==
    LET waiters == s.eventWaiters[eventName]
        resolved == {waiters[i].id : i \in
                        {j \in DOMAIN waiters : conditionHolds(waiters[j], value)}}
    IN  IF waiters = <<>> THEN s
        ELSE [s EXCEPT !.eventWaiters[eventName] =
                           remainingWaiters(waiters, value),
                       !.waitCall = [w \in EventWaiterIds |->
                                        IF w \in resolved
                                        THEN [pc |-> "resolved",
                                              value |-> <<value>>]
                                        ELSE @[w]],
                       !.emitLog = Append(@, [event |-> eventName,
                                              value |-> value])]

\* emit('free-slot-amount-change', value): listeners only observe.
emitFreeSlotAmountChange(s, value) ==
    IF s.destroyed THEN s
    ELSE notifyEventWaiters(
             [s EXCEPT !.freeSlotEvents = LastN(Append(@, value), 1)],
             "free-slot-amount-change", value)

\* emit('blocked-state-change', value); `actual` is isBlocked() at that moment.
emitBlockedStateChange(s, value) ==
    IF s.destroyed THEN s
    ELSE notifyEventWaiters(
             [s EXCEPT !.blockedEvents =
                  LastN(Append(@, [payload |-> value, actual |-> isBlocked(s)]),
                        2)],
             "blocked-state-change", value)

\* emit('destroy', this): every registered callback is called once.
emitDestroy(s) ==
    IF s.destroyed THEN s
    ELSE notifyEventWaiters(
             [s EXCEPT !.delivered =
                  [l \in Listeners |->
                      IF l \in s.listeners THEN @[l] + 1 ELSE @[l]]],
             "destroy", "this")

\* notifyStateChange() emitting blocked-state-change on every call
notifyStateChangeAlways(s) ==
    IF s.destroyed THEN s
    ELSE LET currentFreeSlots == getFreeSlotAmount(s)
             currentBlocked == isBlocked(s)
             s1 == emitFreeSlotAmountChange(s, currentFreeSlots)
         IN  emitBlockedStateChange(
                 [s1 EXCEPT !.previousBlocked = currentBlocked], currentBlocked)

notifyStateChange(s) ==
    IF s.destroyed THEN s
    ELSE LET currentFreeSlots == getFreeSlotAmount(s)
             currentBlocked == isBlocked(s)
             s1 == emitFreeSlotAmountChange(s, currentFreeSlots)
         IN  IF currentBlocked # s1.previousBlocked
             THEN emitBlockedStateChange(
                      [s1 EXCEPT !.previousBlocked = currentBlocked],
                      currentBlocked)
             ELSE s1

\* waiter.resolve() of a suspended hasFreeSlot(): the produce() that awaits it
\* resumes, calls fn() and awaits the producer task.
\* A hasFreeSlot() call made on its own returns true to its caller.
resolveWaiter(s, p) ==
    [s EXCEPT !.pc[p] = IF @ = "waiting" THEN "producing" ELSE "resolved"]

RECURSIVE checkWaitingProducers(_)
checkWaitingProducers(s) ==
    IF Len(s.waitingForSlot) > 0 /\ ~isBlocked(s)
    THEN LET waiter == Head(s.waitingForSlot)
         IN  checkWaitingProducers(
                 resolveWaiter([s EXCEPT !.waitingForSlot = Tail(@)], waiter))
    ELSE s

\* this.waitingForSlot.forEach(waiter => waiter.resolve()); this.waitingForSlot = []
RECURSIVE resolveAllWaiters(_)
resolveAllWaiters(s) ==
    IF Len(s.waitingForSlot) > 0
    THEN resolveAllWaiters(
             resolveWaiter([s EXCEPT !.waitingForSlot = Tail(@)],
                           Head(s.waitingForSlot)))
    ELSE s

\* --------------------------------------------------------------- p-queue
\* a finally block that wakes every waiting producer, blocked or not
jobFinallyWakeAll(s) ==
    LET s1 == [s EXCEPT !.runningJobs = @ - 1]
        s2 == resolveAllWaiters(s1)
        s3 == notifyStateChange(s2)
    IN  [s3 EXCEPT !.immediates = @ + 1]

\* The finally block of the job scheduleConsumption() adds to the p-queue.
jobFinally(s) ==
    LET s1 == [s EXCEPT !.runningJobs = @ - 1]
        s2 == checkWaitingProducers(s1)
        s3 == notifyStateChange(s2)
    IN  [s3 EXCEPT !.immediates = @ + 1]

\* p-queue starts a job: the job calls this.consumeFn(data) and awaits it.
\* With consumeFn null (after destroy()) the job runs straight into its
\* finally block.  p-queue learns of the job's end some microtasks later.
runJob(s, data) ==
    IF s.consumeFn
    THEN [s EXCEPT !.executing = @ \cup {data}, !.started = Append(@, data)]
    ELSE [jobFinally(s) EXCEPT !.exiting = @ + 1]

\* p-queue's test before it starts a queued job
canStartAnother(s) ==
    /\ Len(s.queue.jobs) > 0
    /\ ~s.queue.isPaused
    /\ s.queue.pending < s.queue.concurrency

\* p-queue's tryToStartAnother(): start the oldest queued job if allowed.
tryToStartAnother(s) ==
    IF canStartAnother(s)
    THEN runJob([s EXCEPT !.queue.jobs = Tail(@), !.queue.pending = @ + 1],
                Head(s.queue.jobs))
    ELSE s

\* this.queue.add(job): enqueue, then try to start one job.
queueAdd(s, data) ==
    tryToStartAnother([s EXCEPT !.queue.jobs = Append(@, data)])

\* this.queue.start(): resume and start as many queued jobs as allowed.
RECURSIVE processQueue(_)
processQueue(s) ==
    IF canStartAnother(s) THEN processQueue(tryToStartAnother(s)) ELSE s

queueStart(s) ==
    IF ~s.queue.isPaused THEN s
    ELSE processQueue([s EXCEPT !.queue.isPaused = FALSE])

queuePause(s) == [s EXCEPT !.queue.isPaused = TRUE]

queueClear(s) == [s EXCEPT !.queue.jobs = <<>>]

\* ------------------------------------------------------------- scheduler
\* the condition of the while loop of scheduleConsumption(), off by one
canScheduleOffByOne(s) ==
    Len(s.buffer) > 0 /\ s.runningJobs <= s.queue.concurrency

\* the condition of the while loop of scheduleConsumption()
canSchedule(s) ==
    Len(s.buffer) > 0 /\ s.runningJobs < s.queue.concurrency

\* the body of the while loop, taking the newest item (pop() for shift())
claimLast(s) ==
    LET data == s.buffer[Len(s.buffer)]
        s1 == [s EXCEPT !.buffer = SubSeq(@, 1, Len(@) - 1)]
    IN  IF data # Undefined
        THEN queueAdd(notifyStateChange([s1 EXCEPT !.runningJobs = @ + 1]),
                      data)
        ELSE s1

\* the body of the while loop of scheduleConsumption(): claim the oldest
\* item and hand a job for it to the p-queue; an undefined item is dropped.
claimNext(s) ==
    LET data == Head(s.buffer)
        s1 == [s EXCEPT !.buffer = Tail(@)]
    IN  IF data # Undefined
        THEN queueAdd(notifyStateChange([s1 EXCEPT !.runningJobs = @ + 1]),
                      data)
        ELSE s1

\* the loop leaving after its first pass
scheduleOnce(s) == IF canSchedule(s) THEN claimNext(s) ELSE s

\* the while loop of scheduleConsumption()
RECURSIVE scheduleLoop(_)
scheduleLoop(s) == IF canSchedule(s) THEN scheduleLoop(claimNext(s)) ELSE s

scheduleConsumption(s) ==
    IF ~s.consuming \/ s.destroyed \/ ~s.consumeFn THEN s ELSE scheduleLoop(s)

\* ------------------------------------------------------------------ Init
\* The state after construction, in a run that makes n produce() calls.
\* the state after construction, before the first n produce()/hasFreeSlot()
\* calls and the first m waitForEvent() calls of a run
InitCalls(n, m) ==
    /\ buffer = <<>>
    /\ slotAmount \in 1..MaxSlotAmount
    /\ consuming = FALSE
    /\ consumeFn = FALSE
    /\ destroyed = FALSE
    /\ waitingForSlot = <<>>
    /\ previousBlocked = FALSE
    /\ runningJobs = 0
    /\ \E c \in 1..MaxConcurrency :
           queue = [concurrency |-> c, isPaused |-> FALSE, pending |-> 0,
                    jobs |-> <<>>]
    /\ executing = {}
    /\ exiting = 0
    /\ immediates = 0
    /\ pc = [p \in Producers |-> IF p <= n THEN "idle" ELSE "unused"]
    /\ clearPending = 0
    /\ destroyPc = "none"
    /\ appended = <<>>
    /\ started = <<>>
    /\ settled = <<>>
    /\ freeSlotEvents = <<>>
    /\ blockedEvents = <<>>
    /\ listeners = {}
    /\ eventWaiters = [e \in WaitableEvents |-> <<>>]
    /\ waitCall = [w \in EventWaiterIds |->
                       [pc |-> IF w <= m THEN "idle" ELSE "unused",
                        value |-> <<>>]]
    /\ threw = FALSE
    /\ delivered = [l \in Listeners |-> 0]
    /\ consumerErrors = {}
    /\ emitLog = <<>>
    /\ emptyCall = "idle"

InitWith(n) == InitCalls(n, NumEventWaiters)

\* ------------------------------------------------------- call outcomes
\* a public call returns, or its promise is created, without throwing
Returned(s) == [s EXCEPT !.threw = FALSE]

\* throw new Error('ProdConsPQueue has been destroyed') in call p
throwDestroyed(s, p) == [s EXCEPT !.pc[p] = "rejected", !.threw = TRUE]

\* ----------------------------------------------------------- hasFreeSlot
\* hasFreeSlot() that never looks at this.destroyed
hasFreeSlotUnguarded(s, p, own) ==
    IF ~isBlocked(s)
    THEN Returned([s EXCEPT !.pc[p] = IF own THEN "resolved" ELSE "producing"])
    ELSE Returned([s EXCEPT !.pc[p] = IF own THEN "suspended" ELSE "waiting",
                            !.waitingForSlot = Append(@, p)])

\* hasFreeSlot() in call p: made on its own (own) or awaited by produce()
hasFreeSlot(s, p, own) ==
    IF s.destroyed
    THEN throwDestroyed(s, p)
    ELSE IF ~isBlocked(s)
         THEN Returned([s EXCEPT !.pc[p] =
                            IF own THEN "resolved" ELSE "producing"])
         ELSE Returned([s EXCEPT !.pc[p] =
                            IF own THEN "suspended" ELSE "waiting",
                                 !.waitingForSlot = Append(@, p)])

\* The calls of produce() and hasFreeSlot() are numbered together, in the
\* order they are made.
HasFreeSlotCall(p) ==
    /\ pc[p] = "idle"
    /\ \A q \in Producers : q < p => pc[q] # "idle"
    /\ Becomes(hasFreeSlot(State, p, TRUE))

\* ---------------------------------------------------------- waitForEvent
waitForEvent(s, w, eventName, condition) ==
    IF s.destroyed
    THEN [s EXCEPT !.waitCall[w].pc = "rejected", !.threw = TRUE]
    ELSE Returned([s EXCEPT !.eventWaiters[eventName] =
                                Append(@, [id |-> w, condition |-> condition]),
                            !.waitCall[w].pc = "pending"])

\* The calls are numbered in the order they are made.
WaitForEvent(w) ==
    /\ waitCall[w].pc = "idle"
    /\ \A v \in EventWaiterIds : v < w => waitCall[v].pc # "idle"
    /\ \E eventName \in WaitableEvents :
           \E condition \in Conditions(eventName) :
               Becomes(waitForEvent(State, w, eventName, condition))

\* ---------------------------------------------------------------- on/off
on(s, l) == IF s.destroyed THEN s ELSE [s EXCEPT !.listeners = @ \cup {l}]

On(l) == Becomes(Returned(on(State, l)))

off(s, l) == [s EXCEPT !.listeners = @ \ {l}]

Off(l) == Becomes(Returned(off(State, l)))

\* --------------------------------------------------------------- produce
\* produce(fn) up to `await this.hasFreeSlot()`
produce(s, p) ==
    IF s.destroyed THEN throwDestroyed(s, p) ELSE hasFreeSlot(s, p, FALSE)

ProduceCall(p) ==
    /\ pc[p] = "idle"
    /\ \A q \in Producers : q < p => pc[q] # "idle"
    /\ Becomes(produce(State, p))

\* produce(fn) putting the item at the head of the buffer (unshift for push)
produceUnshift(s, p, data) ==
    LET s1 == [s EXCEPT !.buffer = <<data>> \o @,
                        !.appended = Append(@, p),
                        !.pc[p] = "done"]
    IN  scheduleConsumption(notifyStateChange(s1))

\* the rest of produce(fn) once `await fn()` yields data
produceAppend(s, p, data) ==
    LET s1 == [s EXCEPT !.buffer = Append(@, data),
                        !.appended = Append(@, p),
                        !.pc[p] = "done"]
    IN  scheduleConsumption(notifyStateChange(s1))

ProduceAppend(p) ==
    /\ pc[p] = "producing"
    /\ \E data \in {p, Undefined} : Becomes(produceAppend(State, p, data))

\* produce(fn) whose failing task also puts an item in the buffer
produceFailPush(s, p) ==
    scheduleConsumption(notifyStateChange(
        [s EXCEPT !.buffer = Append(@, p), !.pc[p] = "failed"]))

\* `await fn()` throws: produce() rejects with the task's error
produceFail(s, p) == [s EXCEPT !.pc[p] = "failed"]

ProduceThrow(p) ==
    /\ pc[p] = "producing"
    /\ Becomes(produceFail(State, p))

\* --------------------------------------------------------------- consume
consume(s) ==
    IF s.destroyed
    THEN [s EXCEPT !.threw = TRUE]
    ELSE Returned(scheduleConsumption([s EXCEPT !.consumeFn = TRUE,
                                                !.consuming = TRUE]))

Consume == Becomes(consume(State))

\* a consumeFn(data) call settles (resolves or rejects): the job's finally
settle(s, data) ==
    [jobFinally([s EXCEPT !.executing = @ \ {data},
                          !.settled = Append(@, data)])
        EXCEPT !.exiting = @ + 1]

Settle(data) ==
    /\ data \in executing
    /\ Becomes(settle(State, data))

\* consumeFn(data) throws or rejects: console.error(...), then the finally
SettleError(data) ==
    /\ data \in executing
    /\ Becomes(settle([State EXCEPT !.consumerErrors = @ \cup {data}], data))

\* p-queue sees a job's promise settled: one less pending, start the next
QueueNext ==
    /\ exiting > 0
    /\ Becomes(tryToStartAnother([State EXCEPT !.exiting = @ - 1,
                                                !.queue.pending = @ - 1]))

\* a setImmediate(() => this.scheduleConsumption()) callback runs
Immediate ==
    /\ immediates > 0
    /\ Becomes(scheduleConsumption([State EXCEPT !.immediates = @ - 1]))

\* ------------------------------------------------------------- lifecycle
setSlotAmount(s, n) ==
    checkWaitingProducers(notifyStateChange([s EXCEPT !.slotAmount = n]))

SetSlotAmount(n) == Becomes(Returned(setSlotAmount(State, n)))

pause(s) == queuePause([s EXCEPT !.consuming = FALSE])

Pause == Becomes(Returned(pause(State)))

start(s) == scheduleConsumption(queueStart([s EXCEPT !.consuming = TRUE]))

Start == Becomes(Returned(start(State)))

\* clear() that wakes waiting producers only while a slot is free
clearCheckWaiters(s) ==
    LET s1 == checkWaitingProducers([s EXCEPT !.buffer = <<>>])
    IN  [queueClear(s1) EXCEPT !.clearPending = @ + 1]

\* clear() up to `await this.queue.clear()`
clear(s) ==
    LET s1 == resolveAllWaiters([s EXCEPT !.buffer = <<>>])
    IN  [queueClear(s1) EXCEPT !.clearPending = @ + 1]

Clear ==
    /\ clearPending < MaxPendingClear
    /\ Becomes(Returned(clear(State)))

\* clear() after the await: this.notifyStateChange()
ClearNotify ==
    /\ clearPending > 0
    /\ Becomes(notifyStateChange([State EXCEPT !.clearPending = @ - 1]))

\* destroy() that leaves the event waiters pending
keepEventWaiters(s) == s

\* eventWaiters: every waiter.resolve(null); this.eventWaiters.clear()
releaseEventWaiters(s) ==
    LET pending == UNION {{s.eventWaiters[e][i].id :
                               i \in DOMAIN s.eventWaiters[e]} :
                           e \in WaitableEvents}
    IN  [s EXCEPT !.eventWaiters = [e \in WaitableEvents |-> <<>>],
                  !.waitCall = [w \in EventWaiterIds |->
                                   IF w \in pending
                                   THEN [pc |-> "resolvedNull", value |-> <<>>]
                                   ELSE @[w]]]

\* destroy() that does not return at once on a destroyed instance
destroyAgain(s) ==
    LET s1 == [s EXCEPT !.destroyed = TRUE, !.consuming = FALSE,
                        !.consumeFn = FALSE]
    IN  [queuePause(releaseEventWaiters(resolveAllWaiters(s1)))
            EXCEPT !.destroyPc = "paused"]

\* destroy() up to `await this.queue.pause()`
destroy(s) ==
    IF s.destroyed THEN s
    ELSE LET s1 == [s EXCEPT !.destroyed = TRUE, !.consuming = FALSE,
                             !.consumeFn = FALSE]
         IN  [queuePause(releaseEventWaiters(resolveAllWaiters(s1)))
                 EXCEPT !.destroyPc = "paused"]

Destroy == Becomes(Returned(destroy(State)))

\* destroy() up to `await this.queue.clear()`
DestroyClear ==
    /\ destroyPc = "paused"
    /\ Becomes([queueClear(State) EXCEPT !.destroyPc = "cleared"])

\* destroy() to its end: emit('destroy', this), this.listeners.clear()
DestroyEnd ==
    /\ destroyPc = "cleared"
    /\ Becomes([emitDestroy(State) EXCEPT !.listeners = {},
                                         !.destroyPc = "done"])

\* ----------------------------------------------------------- waitForEmpty
\* the test of waitForEmpty()'s while loop
waitForEmptyLoop(s) ==
    /\ Len(s.buffer) > 0 \/ s.runningJobs > 0
    /\ s.consuming
    /\ ~s.destroyed

\* one test of the loop: the call awaits its timer, or returns
waitForEmpty(s) ==
    [s EXCEPT !.emptyCall = IF waitForEmptyLoop(s) THEN "polling"
                            ELSE "returned"]

\* the call of waitForEmpty(), to its first test
WaitForEmptyCall ==
    /\ emptyCall = "idle"
    /\ Becomes(waitForEmpty(State))

\* setTimeout(resolve, 1) fires and the loop tests again
WaitForEmptyPoll ==
    /\ emptyCall = "polling"
    /\ Becomes(waitForEmpty(State))

\* ------------------------------------------------------------------ Next
Next ==
    \/ \E p \in Producers : ProduceCall(p)
    \/ \E p \in Producers : ProduceAppend(p)
    \/ Consume
    \/ \E data \in Producers : Settle(data)
    \/ QueueNext
    \/ Immediate
    \/ \E n \in 0..MaxSlotAmount : SetSlotAmount(n)
    \/ Pause
    \/ Start
    \/ Clear
    \/ ClearNotify
    \/ Destroy
    \/ DestroyClear
    \/ DestroyEnd
    \/ \E p \in Producers : HasFreeSlotCall(p)
    \/ \E w \in EventWaiterIds : WaitForEvent(w)
    \/ \E l \in Listeners : On(l)
    \/ \E l \in Listeners : Off(l)
    \/ \E p \in Producers : ProduceThrow(p)
    \/ \E data \in Producers : SettleError(data)
    \/ WaitForEmptyCall
    \/ WaitForEmptyPoll

Init == InitWith(NumLifecycleProducers)

Spec == Init /\ [][Next]_vars

\* Runs that use produce, consume, pause and start only: the instance is
\* never cleared, resized or destroyed.
InitFlow == InitWith(NumProducers)

NextFlow ==
    \/ \E p \in Producers : ProduceCall(p)
    \/ \E p \in Producers : ProduceAppend(p)
    \/ Consume
    \/ \E data \in Producers : Settle(data)
    \/ QueueNext
    \/ Immediate
    \/ Pause
    \/ Start

SpecFlow == InitFlow /\ [][NextFlow]_vars

\* Runs that use every operation but destroy().
NextLive ==
    \/ NextFlow
    \/ \E n \in 0..MaxSlotAmount : SetSlotAmount(n)
    \/ Clear
    \/ ClearNotify

SpecLive == Init /\ [][NextLive]_vars

\* Runs that produce, consume, pause and start, ask for a free slot, and
\* destroy the instance at any moment.
InitDestroy == InitWith(NumDestroyProducers)

NextDestroy ==
    \/ NextFlow
    \/ \E p \in Producers : HasFreeSlotCall(p)
    \/ Destroy
    \/ DestroyClear
    \/ DestroyEnd

SpecDestroy == InitDestroy /\ [][NextDestroy]_vars

\* The same runs with 'destroy' callbacks registered and removed, and with
\* setSlotAmount(), clear() and waitForEvent() called on the destroyed
\* instance.
NextPostDestroy ==
    \/ NextDestroy
    \/ \E l \in Listeners : On(l)
    \/ \E l \in Listeners : Off(l)
    \/ destroyed /\ \E n \in 0..MaxSlotAmount : SetSlotAmount(n)
    \/ destroyed /\ Clear
    \/ ClearNotify
    \/ destroyed /\ \E w \in EventWaiterIds : WaitForEvent(w)

SpecPostDestroy == InitDestroy /\ [][NextPostDestroy]_vars

\* Runs of one produce() or hasFreeSlot() call with every operation but
\* waitForEvent(), on() and off(), made before and after destroy().
InitTerminal == InitWith(NumTerminalProducers)

NextTerminal ==
    \/ NextDestroy
    \/ \E n \in 0..MaxSlotAmount : SetSlotAmount(n)
    \/ Clear
    \/ ClearNotify

SpecTerminal == InitTerminal /\ [][NextTerminal]_vars

\* Runs of produce(), hasFreeSlot() and consume() on an instance that is
\* resized and cleared, never paused and never destroyed.
NextSlot ==
    \/ \E p \in Producers : ProduceCall(p)
    \/ \E p \in Producers : ProduceAppend(p)
    \/ \E p \in Producers : HasFreeSlotCall(p)
    \/ Consume
    \/ \E data \in Producers : Settle(data)
    \/ QueueNext
    \/ Immediate
    \/ \E n \in 0..MaxSlotAmount : SetSlotAmount(n)
    \/ Clear
    \/ ClearNotify

SpecSlot == Init /\ [][NextSlot]_vars

\* Runs of produce() and consume() followed by waitForEvent() callers.
InitWait == InitCalls(NumTerminalProducers, NumWaitCalls) /\ queue.concurrency = 1

NextWait ==
    \/ \E p \in Producers : ProduceCall(p)
    \/ \E p \in Producers : ProduceAppend(p)
    \/ Consume
    \/ \E data \in Producers : Settle(data)
    \/ QueueNext
    \/ Immediate
    \/ \E w \in EventWaiterIds : WaitForEvent(w) /\ eventWaiters'["destroy"] = <<>>

SpecWait == InitWait /\ [][NextWait]_vars

\* Runs without a consumer: producers and hasFreeSlot() callers queue up
\* behind a full buffer, waitForEvent() callers wait for the buffer's events,
\* and the instance is destroyed at any moment.
NextRelease ==
    \/ \E p \in Producers : ProduceCall(p)
    \/ \E p \in Producers : ProduceAppend(p)
    \/ \E p \in Producers : HasFreeSlotCall(p)
    \/ \E w \in EventWaiterIds : WaitForEvent(w)
    \/ Destroy
    \/ DestroyClear
    \/ DestroyEnd

SpecRelease == InitDestroy /\ [][NextRelease]_vars

\* Runs of produce/consume/pause/start in which every producer task resolves
\* between a pause() and the next start().
NextPause ==
    \/ \E p \in Producers : ProduceCall(p)
    \/ \E p \in Producers : queue.isPaused /\ ProduceAppend(p)
    \/ Consume
    \/ \E data \in Producers : Settle(data)
    \/ QueueNext
    \/ Immediate
    \/ Pause
    \/ Start

SpecPause == InitFlow /\ [][NextPause]_vars

\* Runs of produce/consume/pause/start in which the consumer may fail.
NextError ==
    \/ NextFlow
    \/ \E data \in Producers : SettleError(data)

SpecError == InitFlow /\ [][NextError]_vars

\* Runs of produce/consume/pause/start in which producer tasks may throw.
NextThrow ==
    \/ NextFlow
    \/ \E p \in Producers : ProduceThrow(p)

SpecThrow == Init /\ [][NextThrow]_vars

\* Runs of produce/consume/pause/start with one waitForEmpty() call.
NextEmpty ==
    \/ NextFlow
    \/ WaitForEmptyCall
    \/ WaitForEmptyPoll

SpecEmpty == Init /\ [][NextEmpty]_vars

\* Runs of produce and consume alone, on an instance that is never paused,
\* cleared, resized or destroyed, in which every producer task and every
\* consumer invocation settles and the event loop runs every callback due.
NextProgress ==
    \/ \E p \in Producers : ProduceCall(p)
    \/ \E p \in Producers : ProduceAppend(p)
    \/ Consume
    \/ \E data \in Producers : Settle(data)
    \/ QueueNext
    \/ Immediate

\* a producer task or a consumer invocation settles, or a callback runs
Settlement ==
    \/ \E p \in Producers : ProduceAppend(p)
    \/ \E data \in Producers : Settle(data)
    \/ QueueNext
    \/ Immediate

\* Every run of NextProgress takes finitely many steps, so one condition on
\* Settlement says that none of its steps stays due for ever.
Fairness == WF_vars(Settlement)

SpecProgress == InitFlow /\ [][NextProgress]_vars /\ Fairness

\* ------------------------------------------------------------ properties
\* position of x in a sequence that holds it
Position(seq, x) == CHOOSE k \in DOMAIN seq : seq[k] = x

\* the elements of `sub` occur in `seq` in the same relative order
InOrderOf(sub, seq) ==
    \A i, j \in DOMAIN sub :
        i < j => Position(seq, sub[i]) < Position(seq, sub[j])

\* C1: without shrinking the capacity and without clear(), buffered plus
\* in-flight never exceeds slotAmount, however many produce() calls overlap.
C1_WithinCapacity == Len(buffer) + runningJobs <= slotAmount

\* C2: a settlement or a capacity increase that frees k units while more
\* than k producers are suspended wakes exactly k of them.
C2_OneWakePerFreedUnit ==
    [][LET m == Len(waitingForSlot)
           k == getFreeSlotAmount(State)' - getFreeSlotAmount(State)
       IN  (/\ ~destroyed
            /\ runningJobs' < runningJobs \/ slotAmount' > slotAmount
            /\ m > k)
           => m - Len(waitingForSlot') = k]_vars

\* C3: items are appended to the buffer in the order of their produce() calls.
C3_AppendedInCallOrder ==
    \A i, j \in DOMAIN appended : i < j => appended[i] < appended[j]

\* C4: consumeFn is started on the items in the order they were appended.
C4_StartsInAppendOrder == InOrderOf(started, appended)

C4_Witness ==
    /\ Len(started) = NumProducers
    /\ queue.concurrency >= 2
    /\ appended[1] > appended[2]
    /\ queue.isPaused

\* C5: the in-flight count never exceeds the concurrency limit.
C5_InFlightWithinConcurrency == runningJobs <= queue.concurrency

C5_Witness ==
    /\ runningJobs = queue.concurrency
    /\ Len(buffer) > 0
    /\ consuming /\ consumeFn

\* C6: with concurrency 1 the invocations settle in the order their items
\* were appended, and at most one is in flight at any time.
C6_SerialSettlesInAppendOrder ==
    queue.concurrency = 1 =>
        /\ InOrderOf(settled, appended)
        /\ runningJobs <= 1
        /\ Cardinality(executing) <= 1

C6_Witness ==
    /\ queue.concurrency = 1
    /\ Len(settled) = NumProducers
    /\ appended[1] > appended[2]

\* C7: buffered plus in-flight equals items appended minus invocations
\* settled (no clear, no destroy).
C7_CountsBalance ==
    Len(buffer) + runningJobs = Len(appended) - Len(settled)

\* C8: every appended item is passed to consumeFn exactly once: it is still
\* buffered or queued, or it was started, and nothing is started twice
\* (no clear, no destroy).
C8_EveryItemConsumedOnce ==
    /\ Len(appended) = Len(buffer) + Len(queue.jobs) + Len(started)
    /\ \A i, j \in DOMAIN started : started[i] = started[j] => i = j

\* C9: consecutive blocked-state-change emissions carry different payloads,
\* and each payload is isBlocked() at the moment of the emission.
C9_BlockedEdgeTriggered ==
    /\ \A i \in DOMAIN blockedEvents :
           blockedEvents[i].payload = blockedEvents[i].actual
    /\ Len(blockedEvents) = 2 =>
           blockedEvents[1].payload # blockedEvents[2].payload

C9_Witness ==
    /\ Len(blockedEvents) = 2
    /\ blockedEvents[2].payload = TRUE
    /\ clearPending = 0
    /\ runningJobs > 0

\* C10: while not destroyed, every handler that changes the buffered count,
\* the in-flight count or the capacity ends with free-slot-amount-change
\* carrying the current getFreeSlotAmount(); clear() emits it when it resumes.
C10_EveryMutationAnnounced ==
    [][(/\ ~destroyed'
        /\ \/ /\ \/ Len(buffer') # Len(buffer)
                  \/ runningJobs' # runningJobs
                  \/ slotAmount' # slotAmount
               /\ clearPending' <= clearPending
           \/ clearPending' < clearPending)
       => freeSlotEvents' = <<getFreeSlotAmount(State)'>>]_vars

\* C11: when destroy() finishes, every callback registered for 'destroy' has
\* received exactly one destroy notification.
C11_DestroyDeliveredOnce ==
    [][destroyPc = "cleared" /\ destroyPc' = "done"
          => \A l \in listeners : delivered'[l] = 1]_vars

\* every variable but the positions of the calls and the outcome of the last
InstanceState ==
    <<buffer, slotAmount, consuming, consumeFn, destroyed, waitingForSlot,
      previousBlocked, runningJobs, queue, executing, exiting, immediates,
      clearPending, destroyPc, listeners, eventWaiters, appended, started,
      settled, freeSlotEvents, blockedEvents, delivered, consumerErrors>>

\* C12: on a destroyed instance, produce(), consume() and hasFreeSlot() fail
\* with the destroyed-state error and change nothing: the only trace of the
\* call is that it was rejected.
C12_CallsAfterDestroyFail ==
    [][destroyed /\ (\/ \E p \in Producers : ProduceCall(p)
                     \/ \E p \in Producers : HasFreeSlotCall(p)
                     \/ Consume)
          => /\ threw'
             /\ UNCHANGED InstanceState
             /\ UNCHANGED waitCall
             /\ \A p \in Producers : pc'[p] # pc[p] => pc'[p] = "rejected"]_vars

C12_Witness ==
    /\ destroyed
    /\ threw
    /\ pc[1] = "done"
    /\ pc[2] = "rejected"
    /\ buffer # <<>>

\* C13: once destroy() has been called, no item is appended to the buffer.
C13_NoAppendAfterDestroy == [][destroyed => appended' = appended]_vars

\* C14: when destroy() completes, no consumer invocation is still in flight.
C14_DestroyAwaitsInFlight == destroyPc = "done" => executing = {}

\* C15: the destroy() call releases every producer and every hasFreeSlot()
\* caller suspended for a slot and resolves every pending waitForEvent() with
\* null; from then on both waiter lists are empty and no call is suspended.
C15_DestroyReleasesWaiters ==
    [][/\ ~destroyed /\ destroyed'
          => /\ \A p \in Producers :
                    /\ pc[p] = "waiting" => pc'[p] = "producing"
                    /\ pc[p] = "suspended" => pc'[p] = "resolved"
             /\ \A w \in EventWaiterIds :
                    waitCall[w].pc = "pending"
                        => waitCall'[w] = [pc |-> "resolvedNull", value |-> <<>>]
       /\ destroyed'
          => /\ waitingForSlot' = <<>>
             /\ \A e \in WaitableEvents : eventWaiters'[e] = <<>>
             /\ \A p \in Producers : pc'[p] \notin {"waiting", "suspended"}
             /\ \A w \in EventWaiterIds : waitCall'[w].pc # "pending"]_vars

C15_Witness ==
    /\ destroyed
    /\ slotAmount = 1
    /\ pc[1] = "done"
    /\ pc[2] = "resolved"
    /\ waitCall[1].pc = "resolvedNull"

\* C16: on a destroyed instance, each of setSlotAmount, pause, start, clear,
\* waitForEvent, produce, consume and hasFreeSlot fails with the
\* destroyed-state error and does nothing else.
C16_EveryCallAfterDestroyFails ==
    [][destroyed /\ (\/ \E n \in 0..MaxSlotAmount : SetSlotAmount(n)
                     \/ Pause
                     \/ Start
                     \/ Clear
                     \/ \E w \in EventWaiterIds : WaitForEvent(w)
                     \/ \E p \in Producers : ProduceCall(p)
                     \/ Consume
                     \/ \E p \in Producers : HasFreeSlotCall(p))
          => threw' /\ UNCHANGED InstanceState]_vars

\* C17: once destroy() has been called the instance stays destroyed, no
\* consumer invocation starts, no event reaches a callback or a waiter, and
\* another destroy() call returns normally and changes nothing.
C17_DestroyedIsTerminal ==
    [][destroyed
          => /\ destroyed'
             /\ started' = started
             /\ executing' \subseteq executing
             /\ freeSlotEvents' = freeSlotEvents
             /\ blockedEvents' = blockedEvents
             /\ delivered' = delivered
             /\ \A w \in EventWaiterIds :
                    waitCall'[w].pc = "resolved" => waitCall[w].pc = "resolved"
             /\ Destroy => ~threw' /\ UNCHANGED <<InstanceState, pc, waitCall>>]_vars

\* start() between the two awaits of destroy() has run a queued job, which
\* did not invoke the consumer
C17_Witness ==
    /\ destroyed
    /\ ~queue.isPaused
    /\ started = <<>>
    /\ immediates > 0

\* The consumer is registered and running and nothing is left to happen: no
\* producer task pending, no invocation in flight, no callback outstanding.
Quiescent ==
    /\ consumeFn
    /\ consuming
    /\ ~queue.isPaused
    /\ executing = {}
    /\ exiting = 0
    /\ immediates = 0
    /\ \A p \in Producers : pc[p] \notin {"waiting", "producing"}

\* C18: between a pause() and the next start() no consumer invocation
\* starts, an invocation that settles meanwhile decrements runningJobs, and
\* once the instance has been started again and has come to rest, every item
\* produced during the pause has been passed to the consumer.
C18_PauseThenStart ==
    [][/\ queue.isPaused /\ queue.isPaused' => started' = started
       /\ queue.isPaused /\ (\E data \in Producers : Settle(data))
              => runningJobs' = runningJobs - 1
       /\ Quiescent' => Len(started') = Len(appended')]_vars

\* C19: a failing consumer invocation decrements runningJobs by one, its
\* item does not return to the buffer, no produce() call fails because of
\* it, and once the instance has come to rest every item appended after the
\* failed one has been passed to the consumer.
C19_ConsumerFailureIsolated ==
    [][/\ \A data \in Producers :
              SettleError(data)
                  => /\ runningJobs' = runningJobs - 1
                     /\ \A i \in DOMAIN buffer' : buffer'[i] # data
                     /\ \A p \in Producers :
                            pc'[p] \in {"failed", "rejected"} => pc'[p] = pc[p]
       /\ Quiescent'
              => \A data \in consumerErrors' :
                     \A i \in DOMAIN appended' :
                         i > Position(appended', data)
                             => \E j \in DOMAIN started' :
                                    started'[j] = appended'[i]]_vars

\* C20: when a producer task throws, its produce() call fails and nothing
\* else changes: no item appended, no event emitted, no counter moved, no
\* other call affected; a later produce() call that finds a free slot goes on
\* to its task.
C20_ProducerFailureLeavesState ==
    [][/\ \A p \in Producers :
              ProduceThrow(p)
                  => /\ pc' = [pc EXCEPT ![p] = "failed"]
                     /\ UNCHANGED <<InstanceState, waitCall, threw>>
       /\ \A q \in Producers :
              /\ ProduceCall(q)
              /\ \E p \in Producers : pc[p] = "failed"
              /\ Len(buffer) + runningJobs < slotAmount
              => pc'[q] = "producing"]_vars

C20_Witness ==
    /\ pc[1] = "failed"
    /\ pc[2] = "done"
    /\ started = <<2>>
    /\ settled = <<2>>

\* C21: clear() empties the buffer, leaves runningJobs and the invocations in
\* flight as they are and releases every producer suspended in hasFreeSlot(),
\* blocked or not; with runningJobs = 0 the free slot amount is then
\* slotAmount.  When clear() resumes it emits the free slot amount and brings
\* the announced blocked state up to date.
C21_ClearFrame ==
    [][/\ Clear
          => /\ buffer' = <<>>
             /\ runningJobs' = runningJobs
             /\ executing' = executing
             /\ started' = started
             /\ settled' = settled
             /\ waitingForSlot' = <<>>
             /\ \A p \in Producers :
                    IF pc[p] = "waiting" THEN pc'[p] = "producing"
                    ELSE pc'[p] = pc[p]
             /\ runningJobs = 0 => getFreeSlotAmount(State)' = slotAmount
       /\ ClearNotify
          => /\ freeSlotEvents' = <<getFreeSlotAmount(State)'>>
             /\ previousBlocked' = isBlocked(State)'
             /\ UNCHANGED <<buffer, runningJobs, executing, pc>>]_vars

\* clear() has released producer 2 while the only slot is still taken by
\* the invocation in flight
C21_Witness ==
    /\ clearPending > 0
    /\ slotAmount = 1
    /\ executing = {1}
    /\ runningJobs = 1
    /\ buffer = <<>>
    /\ pc[2] = "producing"

\* C22: hasFreeSlot() called while isBlocked() suspends its caller; a
\* suspended call is released only by clear(), by setSlotAmount() or by the
\* settlement of a consumer invocation, and in the last two cases at least
\* one slot is free when it is released.
C22_SuspendedUntilFreed ==
    [][\A p \in Producers :
        /\ HasFreeSlotCall(p) /\ isBlocked(State)
               => pc'[p] = "suspended" /\ waitingForSlot' = Append(waitingForSlot, p)
        /\ pc[p] \in {"waiting", "suspended"} /\ pc'[p] # pc[p]
               => /\ pc'[p] = IF pc[p] = "waiting" THEN "producing"
                                                    ELSE "resolved"
                  /\ \/ Clear
                     \/ /\ \/ \E n \in 0..MaxSlotAmount : SetSlotAmount(n)
                           \/ \E data \in Producers : Settle(data)
                        /\ getFreeSlotAmount(State)' >= 1
                        /\ Len(buffer') + runningJobs' < slotAmount']_vars

\* the settlement of invocation 1 has released call 2
C22_Witness ==
    /\ slotAmount = 1
    /\ settled = <<1>>
    /\ exiting = 1
    /\ buffer = <<>>
    /\ waitingForSlot = <<>>
    /\ pc[2] = "resolved"

\* the event that the pending call w waits for, and its entry in the list
WaiterEvent(w) ==
    CHOOSE e \in WaitableEvents :
        \E i \in DOMAIN eventWaiters[e] : eventWaiters[e][i].id = w

WaiterEntry(w) ==
    LET waiters == eventWaiters[WaiterEvent(w)]
    IN  waiters[CHOOSE i \in DOMAIN waiters : waiters[i].id = w]

\* the emissions of a log that are of the event and satisfy the condition
Matching(log, event, condition) ==
    SelectSeq(log, LAMBDA x : /\ x.event = event
                              /\ ~condition.given \/ condition.eq = x.value)

\* C23: a pending waitForEvent() call stays pending, with its entry in the
\* list, through every emission of other events and every emission whose
\* payload fails its predicate; the first emission of its event whose payload
\* satisfies the predicate resolves it with that payload and removes its
\* entry; once resolved, its result never changes.
C23_FirstMatchResolves ==
    [][\A w \in EventWaiterIds :
        /\ waitCall[w].pc = "pending"
               => LET e == WaiterEvent(w)
                      m == Matching(emitLog', e, WaiterEntry(w).condition)
                  IN  IF m = <<>>
                      THEN /\ waitCall'[w] = waitCall[w]
                           /\ \E i \in DOMAIN eventWaiters'[e] :
                                  eventWaiters'[e][i] = WaiterEntry(w)
                      ELSE /\ waitCall'[w].pc = "resolved"
                           /\ waitCall'[w].value = <<m[1].value>>
                           /\ \A i \in DOMAIN eventWaiters'[e] :
                                  eventWaiters'[e][i].id # w
        /\ waitCall[w].pc = "resolved" => waitCall'[w] = waitCall[w]]_vars

\* an emission of the free slot amount has resolved call 1 and left call 2,
\* which waits for another amount, pending
C23_Witness ==
    /\ blockedEvents = <<>>
    /\ Len(emitLog) = 1
    /\ emitLog[1].event = "free-slot-amount-change"
    /\ waitCall[1].pc = "resolved"
    /\ waitCall[1].value = <<emitLog[1].value>>
    /\ waitCall[2].pc = "pending"
    /\ Len(eventWaiters["free-slot-amount-change"]) = 1
    /\ eventWaiters["free-slot-amount-change"][1].condition.given

\* C24: on an instance that is not destroyed, waitForEmpty() returns only
\* in a state with no buffered item and no in-flight invocation; it stays
\* suspended while items are buffered, also when the queue is paused or no
\* consumer has been registered yet.
C24_WaitForEmptyReturnsEmpty ==
    [][emptyCall # "returned" /\ emptyCall' = "returned" /\ ~destroyed'
           => Len(buffer') + runningJobs' = 0]_vars

\* C25: with slotAmount >= 1, a consumer registered, the instance neither
\* paused nor destroyed, every consumer invocation settling and finitely
\* many produce() calls made, eventually every produce() call has returned,
\* the buffer is empty and no invocation is in flight.
AllProduced ==
    /\ \A p \in Producers : pc[p] \notin {"waiting", "producing"}
    /\ buffer = <<>>
    /\ runningJobs = 0

\* no step of Settlement is due: the run has come to its end
NothingDue ==
    /\ \A p \in Producers : pc[p] # "producing"
    /\ executing = {}
    /\ exiting = 0
    /\ immediates = 0

\* Every run of SpecProgress is finite and, by Fairness, ends only where
\* nothing is due; so the claim is that every such end is drained.
C25_EventuallyDrained == consumeFn /\ NothingDue => AllProduced

\* C26: in every reachable state runningJobs is the number of consumer
\* invocations that have started and not yet settled; so after any pause,
\* consume, produce, start and clear calls the counter is 0 once every
\* executing invocation has settled.
C26_RunningJobsCountsInvocations == runningJobs = Cardinality(executing)

\* the effect of a setSlotAmount(n) step, given whether the queue counted
\* as unblocked before it
SetSlotAmountEffect(n, unblocked) ==
    /\ UNCHANGED <<buffer, runningJobs, executing, queue>>
    /\ IF n <= Len(buffer) + runningJobs
       THEN /\ isBlocked(State)'
            /\ unblocked => /\ blockedEvents' # blockedEvents
                            /\ blockedEvents'[Len(blockedEvents')].payload
            /\ UNCHANGED <<waitingForSlot, pc>>
       ELSE /\ ~isBlocked(State)'
            /\ waitingForSlot' = <<>>
            /\ \A p \in Producers :
                   pc'[p] = IF pc[p] = "waiting" THEN "producing"
                            ELSE IF pc[p] = "suspended" THEN "resolved"
                            ELSE pc[p]

\* C27: setSlotAmount(n) never discards buffered or in-flight items.  With
\* n <= buffered + in-flight it makes isBlocked() true, emits
\* blocked-state-change true if the queue was unblocked, and wakes no
\* suspended producer; with n > buffered + in-flight it makes isBlocked()
\* false and releases the suspended producers.
C27_SetSlotAmount ==
    [][\A n \in 0..MaxSlotAmount :
          SetSlotAmount(n) => SetSlotAmountEffect(n, ~isBlocked(State))]_vars

\* What setSlotAmount(n) does do: as C27, but blocked-state-change true is
\* emitted if the last blocked-state-change payload (false before the first)
\* was false, and nothing is emitted if it was true.
C27_SetSlotAmountAnnounced ==
    [][\A n \in 0..MaxSlotAmount :
          SetSlotAmount(n) =>
              /\ SetSlotAmountEffect(n, ~previousBlocked)
              /\ n <= Len(buffer) + runningJobs /\ previousBlocked
                     => blockedEvents' = blockedEvents]_vars

\* C28: the scheduler is work-conserving.  Whenever a scheduling pass has
\* completed (after consume(), start(), a produce() append, or the pass
\* re-run after a settlement) on an instance that is consuming, with a
\* consumer registered, the buffer is empty or the in-flight count equals
\* the concurrency limit.
C28_WorkConserving ==
    [][/\ consuming' /\ consumeFn' /\ ~destroyed'
       /\ buffer' # <<>>
       /\ \/ Consume
          \/ Start
          \/ \E p \in Producers : ProduceAppend(p)
          \/ Immediate
       => runningJobs' = queue'.concurrency]_vars

C28_Witness ==
    /\ consuming
    /\ queue.concurrency = 1
    /\ runningJobs = 1
    /\ Cardinality(executing) = 1
    /\ Len(buffer) = 1
    /\ settled = <<>>

\* C29: between a pause() and the next start() the scheduler removes no
\* item from the buffer and the in-flight count does not increase, whatever
\* other operations (produce, consume, setSlotAmount) are called meanwhile.
C29_PauseStopsScheduling ==
    [][queue.isPaused /\ queue'.isPaused /\ ~Clear
           => /\ Len(buffer') >= Len(buffer)
              /\ SubSeq(buffer', 1, Len(buffer)) = buffer
              /\ runningJobs' <= runningJobs]_vars

\* the payload of the last blocked-state-change emission, false before the
\* first
LastBlockedPayload ==
    IF blockedEvents = <<>> THEN FALSE
    ELSE blockedEvents[Len(blockedEvents)].payload

\* C30: on an instance that is not destroyed, whenever a public operation or
\* a settlement handler has run to completion, the payload of the last
\* blocked-state-change emission (false before the first) equals
\* isBlocked(): every flip of isBlocked() has been announced.
C30_BlockedSignalCurrent ==
    ~destroyed /\ clearPending = 0 => LastBlockedPayload = isBlocked(State)

\* C31: no lost wake-up.  On an instance that is not destroyed, whenever a
\* public operation or a settlement handler has run to completion, producers
\* are suspended in hasFreeSlot() only if isBlocked() is true: every way in
\* which buffered + in-flight drops below the capacity (settlement, the
\* scheduler removing an item, clear, a capacity increase) also releases
\* the suspended producers.
C31_NoLostWakeUp ==
    ~destroyed /\ waitingForSlot # <<>> => isBlocked(State)
====
